---- MODULE Spec2Model ----
(***************************************************************************)
(* Model of aws_sso_status.py: the session-status reconciliation loop of   *)
(* the AWS SSO menu-bar utility.                                           *)
(*                                                                         *)
(* Time is counted in seconds since an arbitrary epoch; a datetime is the  *)
(* absolute instant it denotes (astimezone() changes the displayed zone,   *)
(* never the instant, and aware datetimes subtract as instants).           *)
(* An optional value is a sequence: <<>> is Python's None, <<v>> is v.     *)
(* A file is <<>> when it does not exist and <<text>> when it does.        *)
(***************************************************************************)
EXTENDS Integers, Sequences, FiniteSets, TLC

(* ------------------------- program constants --------------------------- *)

SESSION_DURATION_HOURS == 8
EXPIRY_WARNING_MINUTES == 10
CHECK_INTERVAL_SECONDS == 60
AGGRESSIVE_CHECK_INTERVAL_SECONDS == 30
AGGRESSIVE_CHECK_THRESHOLD_MINUTES == 5

normal_interval == CHECK_INTERVAL_SECONDS
aggressive_interval == AGGRESSIVE_CHECK_INTERVAL_SECONDS
fast_interval == 1

SecondsPerHour == 3600
SecondsPerMinute == 60
MinutesPerHour == 60

(* ------------------------------ bounds --------------------------------- *)

\* The clock is observed at the instants 0, Granule, ..., EarlySteps * Granule
\* and at whole minutes around the expiry of a session recorded at instant 0.
EarlySteps == 1
\* Minutes past that expiry at which the clock is still observed.
PastMinutes == 1
MaxSections == 2

Granule == AGGRESSIVE_CHECK_INTERVAL_SECONDS

SessionSeconds == SESSION_DURATION_HOURS * SecondsPerHour

\* Minutes before the expiry at which the clock is observed: both sides of
\* every threshold of update_status (0, 5 and 10 minutes remaining).
ProbeMinutes ==
    {0, 1,
     AGGRESSIVE_CHECK_THRESHOLD_MINUTES, AGGRESSIVE_CHECK_THRESHOLD_MINUTES + 1,
     EXPIRY_WARNING_MINUTES - 1, EXPIRY_WARNING_MINUTES}
    \cup {-m : m \in 1..PastMinutes}

Instants ==
    {k * Granule : k \in 0..EarlySteps}
    \cup {SessionSeconds - m * SecondsPerMinute : m \in ProbeMinutes}

(* ------------------------------ values --------------------------------- *)

None == <<>>
Some(v) == <<v>>
Val(o) == o[1]

\* self.profiles: the names offered in the "Refresh profile..." submenu.
Profiles == {"default", "prod"}

\* A section "[profile prod ]" of the configuration names this profile.
PaddedProfile == "prod "

\* The header, the menu lines and the status glyph.
NOT_LOGGED_IN == "AWS SSO not logged in"
EXPIRES_NONE == "Expires at: -"
TIMELEFT_NONE == "Time left: -"
ICON_EXPIRED == "x"
ICON_WARNING == "!"
ICON_OK == "ok"

VARIABLES
    now,                    \* the wall clock at the latest operation
    AWS_CLI,                \* Some(path) or None, fixed for a process lifetime
    alive,                  \* the process is running its event loop
    active_profile,         \* self.active_profile
    fast_mode,              \* self.fast_mode
    aggressive_mode,        \* self.aggressive_mode
    interval,               \* self.timer.interval
    timers_armed,           \* how many repeating timers are scheduled
    title,                  \* self.title (the glyph)
    header_item,            \* self.header_item.title
    expires_item,           \* self.expires_item.title
    timeleft_item,          \* self.timeleft_item.title
    active_profile_file,    \* ~/.aws-sso-status/active_profile
    login_timestamp_files,  \* ~/.aws-sso-status/.login_timestamp_<profile>
    login_requested,        \* history: the login request not yet confirmed
    requested_profile,      \* history: the profile of the latest request
    aws_config,             \* ~/.aws/config
    profiles,               \* self.profiles
    last                    \* history: what the latest operation did

vars == <<now, AWS_CLI, alive, active_profile, fast_mode, aggressive_mode,
          interval, timers_armed, title, header_item, expires_item,
          timeleft_item, active_profile_file, login_timestamp_files,
          login_requested, requested_profile, aws_config, profiles, last>>

(* --------------------------- persistence ------------------------------- *)

\* Mutant: every profile shares one timestamp file.
get_login_timestamp_file_Shared(profile) == ".login_timestamp_"

get_login_timestamp_file(profile) == ".login_timestamp_" \o profile

TimestampFiles ==
    {get_login_timestamp_file(p) : p \in Profiles \cup {PaddedProfile, ""}}

\* datetime.isoformat() and datetime.fromisoformat(): the text of an instant,
\* and the instant of a text; the empty text does not parse.
isoformat(t) == <<"iso", t>>
ParsesAsIso(text) == Len(text) = 2 /\ text[1] = "iso"
fromisoformat(text) == text[2]

\* The outcomes of Path.write_text(): the text is written; open() fails and
\* the file is left as it was; the file is truncated and the write fails.
WriteOutcomes == {"written", "failed_untouched", "failed_truncated"}

write_text(file, text, outcome) ==
    CASE outcome = "written" -> Some(text)
      [] outcome = "failed_untouched" -> file
      [] OTHER -> Some(<<>>)

\* str.strip() on the texts the selection file can hold.
strip(text) == IF text = PaddedProfile THEN "prod" ELSE text

\* Mutant: a file that cannot be read leaves no profile selected.
load_active_profile_NoFallback(file, readable) ==
    IF file = None THEN "default"
    ELSE IF readable THEN strip(Val(file)) ELSE ""

load_active_profile(file, readable) ==
    IF file # None /\ readable THEN strip(Val(file)) ELSE "default"

save_active_profile(file, profile_name, outcome) ==
    IF outcome = "failed_truncated" THEN Some("")
    ELSE IF outcome = "failed_untouched" THEN file
    ELSE Some(profile_name)

save_login_timestamp(files, profile, t, outcome) ==
    [files EXCEPT ![get_login_timestamp_file(profile)] =
        write_text(@, isoformat(t), outcome)]

\* Mutant: a profile without a timestamp file falls back to the file of the
\* default profile.
load_login_timestamp_Fallback(files, profile) ==
    LET own == files[get_login_timestamp_file(profile)]
        timestamp_file == IF own # None THEN own
                          ELSE files[get_login_timestamp_file("default")]
    IN
    IF timestamp_file # None /\ ParsesAsIso(Val(timestamp_file))
    THEN Some(fromisoformat(Val(timestamp_file)))
    ELSE None

load_login_timestamp(files, profile) ==
    LET timestamp_file == files[get_login_timestamp_file(profile)] IN
    IF timestamp_file # None /\ ParsesAsIso(Val(timestamp_file))
    THEN Some(fromisoformat(Val(timestamp_file)))
    ELSE None

calculate_session_expiry(files, profile) ==
    LET login_time == load_login_timestamp(files, profile) IN
    IF login_time = None THEN None
    ELSE Some(Val(login_time) + SessionSeconds)

(* ------------------------ profile discovery ---------------------------- *)

\* A section header is a prefix and the rest of the name: "[default]" is
\* <<"", "default">> and "[profile prod]" is <<"profile ", "prod">>.
startswith_profile(section) == section.name[1] = "profile "
RemovePrefix(section) == section.name[2]
IsDefaultSection(section) == section.name = <<"", "default">>

\* ~/.aws/config: whether the file exists, whether it can be opened, whether
\* configparser parses it, the options of its [DEFAULT] section and its other
\* sections in file order.
ConfigFile(exists, readable, wellformed, defaults, sections) ==
    [exists |-> exists, readable |-> readable, wellformed |-> wellformed,
     defaults |-> defaults, sections |-> sections]

NoConfigFile == ConfigFile(FALSE, FALSE, FALSE, {}, <<>>)

\* ConfigParser.read() skips a file it cannot open; it raises on a line it
\* cannot parse and on a section that occurs twice.
config_read_raises(config) ==
    /\ config.readable
    /\ \/ ~config.wellformed
       \/ \E i, j \in DOMAIN config.sections :
              i # j /\ config.sections[i].name = config.sections[j].name

\* ConfigParser.sections(): the sections read, [DEFAULT] not among them.
config_sections(config) ==
    IF config.readable THEN config.sections ELSE <<>>

\* Mutant: only the options written in the section itself count.
has_option_OwnOnly(config, section, option) == option \in section.options

\* ConfigParser.has_option(): the option is in the section or in [DEFAULT].
has_option(config, section, option) ==
    option \in section.options \/ option \in config.defaults

\* The loop of discover_sso_profiles over the sections not yet visited.
RECURSIVE CollectProfiles(_, _, _)
CollectProfiles(config, sections, found) ==
    IF sections = <<>> THEN found
    ELSE LET section == Head(sections)
             named == IsDefaultSection(section) \/ startswith_profile(section)
             profile_name == IF IsDefaultSection(section) THEN "default"
                             ELSE RemovePrefix(section)
         IN
         CollectProfiles(
             config, Tail(sections),
             IF named /\ (\/ has_option(config, section, "sso_start_url")
                          \/ has_option(config, section, "sso_session"))
             THEN Append(found, profile_name) ELSE found)

discover_sso_profiles(config) ==
    IF ~config.exists THEN <<"default">>
    ELSE IF config_read_raises(config) THEN <<"default">>
    ELSE LET found == CollectProfiles(config, config_sections(config), <<>>)
         IN IF found # <<>> THEN found ELSE <<"default">>

\* The configuration of the home directory in the specifications of the
\* running program: [default], [profile prod] and a padded [profile prod ],
\* each with an sso_session, and the [sso-session corp] they refer to.
HomeConfig ==
    ConfigFile(TRUE, TRUE, TRUE, {},
               <<[name |-> <<"", "default">>, options |-> {"sso_session"}],
                 [name |-> <<"profile ", "prod">>, options |-> {"sso_session"}],
                 [name |-> <<"profile ", PaddedProfile>>,
                  options |-> {"sso_session"}],
                 [name |-> <<"sso-session ", "corp">>,
                  options |-> {"sso_start_url"}]>>)

(* ------------------------- live-login check ---------------------------- *)

\* What running "aws sts get-caller-identity" can do: exit 0, exit non-zero
\* (CalledProcessError), or fail to start (OSError, which is not caught).
CheckOutcomes == {"success", "CalledProcessError", "OSError"}

is_logged_in_raises(cli, outcome) == cli # None /\ outcome = "OSError"

\* Mutant: the check does not look at AWS_CLI first.
is_logged_in_NoCliCheck(cli, outcome) == outcome = "success"

is_logged_in(cli, outcome) == cli # None /\ outcome = "success"

(* --------------------------- update_status ----------------------------- *)

\* Mutant: the quotient is rounded down.
TruncDiv_Floor(a, b) == a \div b

\* int(x / 60): Python's int() truncates toward zero.
TruncDiv(a, b) == IF a >= 0 THEN a \div b ELSE -((-a) \div b)

TotalMinutes(expiry, clock) == TruncDiv(expiry - clock, SecondsPerMinute)

\* Mutant: any tick that sees a live login records it.
LoginConfirmed_AnyMode(fast, logged_in) == logged_in

\* Mutant: a live login is never taken as the confirmation of a request.
LoginConfirmed_Never(fast, logged_in) == FALSE

LoginConfirmed(fast, logged_in) == fast /\ logged_in

\* Mutant: only a missing expiry shows the inactive state.
Inactive_NoExpiryOnly(expiry, logged_in) == expiry = None

Inactive(expiry, logged_in) == expiry = None \/ ~logged_in

\* Mutant: aggressive checking starts at the warning threshold.
EnterAggressive_AtWarning(total_minutes, fast) ==
    total_minutes <= EXPIRY_WARNING_MINUTES /\ ~fast

EnterAggressive(total_minutes, fast) ==
    total_minutes <= AGGRESSIVE_CHECK_THRESHOLD_MINUTES /\ ~fast

LeaveAggressive(aggressive, total_minutes) ==
    aggressive /\ total_minutes > AGGRESSIVE_CHECK_THRESHOLD_MINUTES

\* Mutant: the inactive branch resets the cadence in Fast mode too.
ResetToNormal_Always(fast) == TRUE

\* "if not self.fast_mode": the inactive branch resets the cadence.
ResetToNormal(fast) == ~fast

\* Mutant: exactly zero minutes left still shows the warning glyph.
ChooseIcon_ZeroWarns(total_minutes) ==
    IF total_minutes < 0 THEN ICON_EXPIRED
    ELSE IF total_minutes < EXPIRY_WARNING_MINUTES THEN ICON_WARNING
    ELSE ICON_OK

ChooseIcon(total_minutes) ==
    IF total_minutes <= 0 THEN ICON_EXPIRED
    ELSE IF total_minutes < EXPIRY_WARNING_MINUTES THEN ICON_WARNING
    ELSE ICON_OK

FormatTimeLeft(total_minutes) ==
    LET hours == total_minutes \div MinutesPerHour
        minutes == total_minutes % MinutesPerHour
    IN  IF hours > 0 THEN <<"Time left", hours, minutes>>
        ELSE <<"Time left", minutes>>

HeaderTitle(logged_in, expiry, profile) ==
    IF logged_in /\ expiry # None THEN "AWS SSO profile: " \o profile
    ELSE NOT_LOGGED_IN

\* Mutant: the timer is stopped and never started again.
TimerRestart_NoStart(period) == << <<"stop">>, <<"interval", period>> >>

\* self.timer.stop(); self.timer.interval = period; self.timer.start()
TimerRestart(period) ==
    << <<"stop">>, <<"interval", period>>, <<"start">> >>

\* rumps.Timer: stop() unschedules the timer if it is scheduled, start()
\* schedules it if it is not, and the interval is a plain attribute.
RECURSIVE ArmedAfter(_, _)
ArmedAfter(armed, calls) ==
    IF calls = <<>> THEN armed
    ELSE LET c == Head(calls) IN
         ArmedAfter(IF c[1] = "stop" THEN 0
                    ELSE IF c[1] = "start" /\ armed = 0 THEN 1
                    ELSE armed,
                    Tail(calls))

RECURSIVE IntervalAfter(_, _)
IntervalAfter(ival, calls) ==
    IF calls = <<>> THEN ival
    ELSE LET c == Head(calls) IN
         IntervalAfter(IF c[1] = "interval" THEN c[2] ELSE ival, Tail(calls))

\* The "aws sso login" command line of refresh_profile.
LoginCommand(profile) ==
    <<"aws", "sso", "login">>
    \o (IF profile # "" /\ profile # "default" THEN <<"--profile", profile>>
        ELSE <<>>)

\* Mutant: a second request while one is outstanding is not dispatched.
Dispatch_Deduplicated(fast, profile) ==
    IF fast THEN <<>> ELSE <<LoginCommand(profile)>>

\* The commands refresh_profile hands to subprocess.Popen, whatever the
\* value of fast_mode it finds.
Dispatch(fast, profile) == <<LoginCommand(profile)>>

\* Mutant: a tick in Fast cadence that sees no live login dispatches again.
TickSpawns_Retry(fast, logged_in, profile) ==
    IF fast /\ ~logged_in THEN <<LoginCommand(profile)>> ELSE <<>>

\* The commands update_status hands to subprocess.Popen: it has none.
TickSpawns(fast, logged_in, profile) == <<>>

\* One run of update_status that gets past the live-login check: the state
\* it leaves, as a record.  clock is the instant read on entry, t_write the
\* later instant save_login_timestamp reads, write the outcome of its write.
update_status(profile, fast, aggressive, ival, files, clock, logged_in, t_write, write) ==
    LET expiry0 == calculate_session_expiry(files, profile)
        confirmed == LoginConfirmed(fast, logged_in)
        files1 == IF confirmed
                  THEN save_login_timestamp(files, profile, t_write, write)
                  ELSE files
        expiry == IF confirmed THEN calculate_session_expiry(files1, profile)
                  ELSE expiry0
        fast1 == IF confirmed THEN FALSE ELSE fast
        calls1 == IF confirmed THEN TimerRestart(normal_interval) ELSE <<>>
        ival1 == IntervalAfter(ival, calls1)
        header == HeaderTitle(logged_in, expiry, profile)
    IN
    IF Inactive(expiry, logged_in)
    THEN LET calls == calls1 \o
                      (IF ResetToNormal(fast1) /\ ival1 # normal_interval
                       THEN TimerRestart(normal_interval) ELSE <<>>)
         IN
         [fast_mode |-> fast1,
          aggressive_mode |-> IF ResetToNormal(fast1) THEN FALSE
                              ELSE aggressive,
          interval |-> IntervalAfter(ival, calls),
          timer_calls |-> calls,
          title |-> ICON_EXPIRED,
          header_item |-> header,
          expires_item |-> EXPIRES_NONE,
          timeleft_item |-> TIMELEFT_NONE,
          files |-> files1,
          saved |-> confirmed,
          expiry |-> expiry,
          total_minutes |-> None,
          clock |-> Some(clock),
          spawned |-> TickSpawns(fast, logged_in, profile)]
    ELSE
    LET total_minutes == TotalMinutes(Val(expiry), clock)
        enter == EnterAggressive(total_minutes, fast1)
        leave == ~enter /\ LeaveAggressive(aggressive, total_minutes)
        calls == calls1 \o
                 (IF enter /\ ~aggressive THEN TimerRestart(aggressive_interval)
                  ELSE IF leave THEN TimerRestart(normal_interval)
                  ELSE <<>>)
    IN   [fast_mode |-> fast1,
          aggressive_mode |-> IF enter THEN TRUE
                              ELSE IF leave THEN FALSE ELSE aggressive,
          interval |-> IntervalAfter(ival, calls),
          timer_calls |-> calls,
          title |-> ChooseIcon(total_minutes),
          header_item |-> header,
          expires_item |-> <<"Expires", Val(expiry)>>,
          timeleft_item |-> FormatTimeLeft(total_minutes),
          files |-> files1,
          saved |-> confirmed,
          expiry |-> expiry,
          total_minutes |-> Some(total_minutes),
          clock |-> Some(clock),
          spawned |-> TickSpawns(fast, logged_in, profile)]

\* The record of an operation kept in the history variable last: the
\* operation, the profile it ran for, the flags it found, the live-login
\* result it saw and what update_status computed and wrote.
Did(op, profile, fast0, aggressive0, logged_in, r, t_write, write) ==
    [op |-> op, profile |-> profile, fast0 |-> fast0,
     aggressive0 |-> aggressive0, logged_in |-> logged_in,
     saved |-> r.saved,
     write |-> IF r.saved THEN write ELSE "none",
     t_write |-> IF r.saved THEN Some(t_write) ELSE None,
     expiry |-> r.expiry, total_minutes |-> r.total_minutes,
     clock |-> r.clock, spawned |-> r.spawned,
     timer_calls |-> r.timer_calls,
     selection_write |-> "none", readable |-> TRUE]

NoTick ==
    [saved |-> FALSE, expiry |-> None, total_minutes |-> None,
     clock |-> None, spawned |-> <<>>, timer_calls |-> <<>>]

\* The history of login requests: no request is outstanding, or the latest
\* refresh_profile(profile) has not been followed by a tick that saw a live
\* login, in this process ("this_run") or in one that has ended ("prior_run").
NoRequest == <<"none">>
Requested(run, profile) == <<run, profile>>
Outstanding == login_requested[1] = "this_run"

(* ------------------------------ actions -------------------------------- *)

CliValues == {None, Some("aws")}

\* Mutant: a launch resumes the Fast cadence of a request left outstanding.
InitialFastMode_Persisted(requested) == requested # NoRequest

\* self.fast_mode = False in __init__: nothing of the cadence is read from
\* storage, whatever was requested before the launch.
InitialFastMode(requested) == FALSE

\* AWSSSOStatusApp.__init__ in a fresh process at instant t: the module-level
\* lookup of the CLI, the persisted selection, the timer at the normal
\* interval and the first update_status.  An OSError of the first live-login
\* check leaves __init__ and ends the process.  found is what
\* discover_sso_profiles returned at line 137.
Construct(t, cli, outcome, apf, readable, found, files, requested) ==
    \E profile \in {load_active_profile(apf, readable)},
       logged_in \in {is_logged_in(cli, outcome)},
       raises \in {is_logged_in_raises(cli, outcome)} :
    \E fast \in {InitialFastMode(requested)} :
    \E r \in {update_status(profile, fast, FALSE, normal_interval, files, t,
                            logged_in, t, "written")} :
        /\ now' = t
        /\ AWS_CLI' = cli
        /\ active_profile' = profile
        /\ active_profile_file' = apf
        /\ login_timestamp_files' = IF raises THEN files ELSE r.files
        /\ alive' = ~raises
        /\ fast_mode' = IF raises THEN fast ELSE r.fast_mode
        /\ aggressive_mode' = IF raises THEN FALSE ELSE r.aggressive_mode
        /\ interval' = IF raises THEN normal_interval ELSE r.interval
        /\ timers_armed' = IF raises THEN 0
                           ELSE ArmedAfter(1, r.timer_calls)
        /\ title' = IF raises THEN ICON_EXPIRED ELSE r.title
        /\ header_item' = IF raises THEN NOT_LOGGED_IN ELSE r.header_item
        /\ expires_item' = IF raises THEN EXPIRES_NONE ELSE r.expires_item
        /\ timeleft_item' = IF raises THEN TIMELEFT_NONE ELSE r.timeleft_item
        /\ login_requested' = IF requested = NoRequest \/ (~raises /\ logged_in)
                              THEN NoRequest
                              ELSE Requested("prior_run", requested[2])
        /\ profiles' = found
        /\ UNCHANGED <<requested_profile, aws_config>>
        /\ last' = [(IF raises
                     THEN Did("start_raised", profile, fast, FALSE, FALSE,
                              NoTick, t, "none")
                     ELSE Did("start", profile, fast, FALSE, logged_in, r, t,
                              "none"))
                    EXCEPT !.readable = readable]

\* The first launch, at instant 0: nothing has been persisted yet.
Init ==
    \E cli \in CliValues, outcome \in CheckOutcomes :
    \E profile \in {load_active_profile(None, TRUE)},
       files \in {[f \in TimestampFiles |-> None]},
       logged_in \in {is_logged_in(cli, outcome)},
       raises \in {is_logged_in_raises(cli, outcome)} :
    \E r \in {update_status(profile, FALSE, FALSE, normal_interval, files, 0,
                            logged_in, 0, "written")} :
        /\ now = 0
        /\ AWS_CLI = cli
        /\ active_profile = profile
        /\ active_profile_file = None
        /\ login_timestamp_files = files
        /\ alive = ~raises
        /\ fast_mode = FALSE
        /\ aggressive_mode = IF raises THEN FALSE ELSE r.aggressive_mode
        /\ interval = IF raises THEN normal_interval ELSE r.interval
        /\ timers_armed = IF raises THEN 0 ELSE ArmedAfter(1, r.timer_calls)
        /\ title = IF raises THEN ICON_EXPIRED ELSE r.title
        /\ header_item = IF raises THEN NOT_LOGGED_IN ELSE r.header_item
        /\ expires_item = IF raises THEN EXPIRES_NONE ELSE r.expires_item
        /\ timeleft_item = IF raises THEN TIMELEFT_NONE ELSE r.timeleft_item
        /\ login_requested = NoRequest
        /\ requested_profile = None
        /\ aws_config = HomeConfig
        /\ profiles = discover_sso_profiles(HomeConfig)
        /\ last = IF raises
                  THEN Did("start_raised", profile, FALSE, FALSE, FALSE,
                           NoTick, 0, "none")
                  ELSE Did("start", profile, FALSE, FALSE, logged_in, r, 0,
                           "none")

\* The process is quit (or has died) and is launched again at instant t.
Restart ==
    \E found \in {discover_sso_profiles(aws_config)} :
    \E t \in Instants, cli \in CliValues, outcome \in CheckOutcomes :
        /\ t >= now
        /\ Construct(t, cli, outcome, active_profile_file, TRUE, found,
                     login_timestamp_files, login_requested)

\* The timer fires at instant t and update_status runs.  When it confirms a
\* login, save_login_timestamp reads the clock again at t_write and its
\* write ends as write says; otherwise nothing is written.
TimerFires(t, outcome) ==
        /\ alive
        /\ t >= now
        /\ IF is_logged_in_raises(AWS_CLI, outcome)
           THEN \* the OSError leaves update_status before it changes anything
                /\ now' = t
                /\ last' = Did("tick_raised", active_profile, FALSE, FALSE,
                               FALSE, NoTick, t, "none")
                /\ UNCHANGED <<fast_mode, aggressive_mode, interval,
                               timers_armed, title, header_item,
                               expires_item, timeleft_item,
                               login_timestamp_files, login_requested>>
           ELSE \E logged_in \in {is_logged_in(AWS_CLI, outcome)} :
                \E t_write \in IF LoginConfirmed(fast_mode, logged_in)
                               THEN {u \in Instants : u >= t /\ u <= t + Granule}
                               ELSE {t},
                   write \in IF LoginConfirmed(fast_mode, logged_in)
                             THEN WriteOutcomes ELSE {"written"} :
                \E r \in {update_status(active_profile, fast_mode,
                                        aggressive_mode, interval,
                                        login_timestamp_files, t, logged_in,
                                        t_write, write)} :
                /\ now' = t_write
                /\ fast_mode' = r.fast_mode
                /\ aggressive_mode' = r.aggressive_mode
                /\ interval' = r.interval
                /\ timers_armed' = ArmedAfter(timers_armed, r.timer_calls)
                /\ title' = r.title
                /\ header_item' = r.header_item
                /\ expires_item' = r.expires_item
                /\ timeleft_item' = r.timeleft_item
                /\ login_timestamp_files' = r.files
                /\ login_requested' = IF logged_in THEN NoRequest
                                      ELSE login_requested
                /\ last' = Did("tick", active_profile, fast_mode,
                               aggressive_mode, logged_in, r, t_write, write)
        /\ UNCHANGED <<AWS_CLI, alive, active_profile, active_profile_file,
                       requested_profile, aws_config, profiles>>

Tick == \E t \in Instants, outcome \in CheckOutcomes : TimerFires(t, outcome)

\* The user picks a profile of the "Refresh profile..." submenu at instant t.
\* The write of the selection file ends as write says.
MenuClick(t, profile, write) ==
        /\ alive
        /\ t >= now
        /\ now' = t
        /\ IF AWS_CLI = None
           THEN /\ last' = Did("refresh_unavailable", profile, fast_mode,
                               aggressive_mode, FALSE, NoTick, t, "none")
                /\ UNCHANGED <<active_profile, active_profile_file, fast_mode,
                               interval, timers_armed, login_requested,
                               requested_profile>>
           ELSE /\ active_profile' = profile
                /\ active_profile_file' =
                       save_active_profile(active_profile_file, profile,
                                           write)
                /\ fast_mode' = TRUE
                /\ interval' =
                       IntervalAfter(interval, TimerRestart(fast_interval))
                /\ timers_armed' =
                       ArmedAfter(timers_armed, TimerRestart(fast_interval))
                /\ login_requested' = Requested("this_run", profile)
                /\ requested_profile' = Some(profile)
                /\ last' = [Did("refresh_profile", profile, fast_mode,
                                aggressive_mode, FALSE,
                                [NoTick EXCEPT
                                   !.spawned = Dispatch(fast_mode, profile),
                                   !.timer_calls = TimerRestart(fast_interval)],
                                t, "none")
                            EXCEPT !.selection_write = write]
        /\ UNCHANGED <<AWS_CLI, alive, aggressive_mode, title, header_item,
                       expires_item, timeleft_item, login_timestamp_files,
                       aws_config, profiles>>

\* The clicks of the main specification: the profiles of the menu are plain
\* names and the selection file is written.
refresh_profile ==
    \E t \in Instants, profile \in Profiles : MenuClick(t, profile, "written")

Next == Tick \/ refresh_profile \/ Restart

Spec == Init /\ [][Next]_vars

(* ----------------- the selection file and its failures ----------------- *)

\* The instants of the specification of the selection file: the launch and
\* one timer period of the aggressive cadence later.
EarlyInstants == {0, Granule}

\* The items of the "Refresh profile..." submenu, a padded name among them.
MenuProfiles == {profiles[i] : i \in DOMAIN profiles}

TickEarly ==
    \E t \in EarlyInstants, outcome \in CheckOutcomes : TimerFires(t, outcome)

\* A click whose write of the selection file may fail (save_active_profile
\* swallows the exception).
refresh_profile_any_write ==
    \E t \in EarlyInstants, profile \in MenuProfiles, write \in WriteOutcomes :
        MenuClick(t, profile, write)

\* A relaunch at which the selection file may be unreadable.
RestartAnyRead ==
    \E found \in {discover_sso_profiles(aws_config)} :
    \E t \in EarlyInstants, cli \in CliValues, outcome \in CheckOutcomes,
       readable \in BOOLEAN :
        /\ t >= now
        /\ Construct(t, cli, outcome, active_profile_file, readable, found,
                     login_timestamp_files, login_requested)

NextSelection == TickEarly \/ refresh_profile_any_write \/ RestartAnyRead

SpecSelection == Init /\ [][NextSelection]_vars

(* ------------------------ one running process ------------------------- *)

\* The instants of the specification of one process: its launch, and five
\* minutes before the expiry of a login recorded at the launch.
LiveInstants ==
    {0, SessionSeconds - AGGRESSIVE_CHECK_THRESHOLD_MINUTES * SecondsPerMinute}

TickLive ==
    \E t \in LiveInstants, outcome \in CheckOutcomes : TimerFires(t, outcome)

refresh_profile_live ==
    \E t \in LiveInstants, profile \in Profiles :
        MenuClick(t, profile, "written")

\* One process from its launch on, never quit.  The timer is armed and
\* repeats, so update_status cannot stay due for ever without running.
NextLive == TickLive \/ refresh_profile_live

SpecLive == Init /\ [][NextLive]_vars /\ WF_vars(TickLive)

(* ------------------- discovery over configurations -------------------- *)

\* The configurations explored: up to MaxSections sections, each named by
\* one of four headers and holding one of four sets of options, under a
\* [DEFAULT] section that is empty or holds an sso_start_url; every such
\* content as a file that parses, as one that cannot be opened and as one
\* with a line that does not parse; and no file at all.
SectionNames ==
    {<<"", "default">>, <<"profile ", "prod">>, <<"profile ", "default">>,
     <<"sso-session ", "corp">>}
OptionSets == {{}, {"sso_start_url"}, {"sso_session"}, {"region"}}
Sections == [name : SectionNames, options : OptionSets]
SectionLists == UNION {[1..n -> Sections] : n \in 0..MaxSections}
ConfigFiles ==
    {NoConfigFile}
    \cup {ConfigFile(TRUE, readable, wellformed, defaults, sections) :
            readable \in BOOLEAN, wellformed \in BOOLEAN,
            defaults \in {{}, {"sso_start_url"}}, sections \in SectionLists}

\* Before the launch: some configuration is in the home directory and no
\* process runs.
InitDiscover ==
    /\ aws_config \in ConfigFiles
    /\ profiles = <<>>
    /\ now = 0
    /\ AWS_CLI = None
    /\ alive = FALSE
    /\ active_profile = "default"
    /\ active_profile_file = None
    /\ login_timestamp_files = [f \in TimestampFiles |-> None]
    /\ fast_mode = FALSE
    /\ aggressive_mode = FALSE
    /\ interval = normal_interval
    /\ timers_armed = 0
    /\ title = ICON_EXPIRED
    /\ header_item = NOT_LOGGED_IN
    /\ expires_item = EXPIRES_NONE
    /\ timeleft_item = TIMELEFT_NONE
    /\ login_requested = NoRequest
    /\ requested_profile = None
    /\ last = Did("not_launched", "default", FALSE, FALSE, FALSE, NoTick, 0,
                  "none")

\* self.profiles = discover_sso_profiles(), the first statement of __init__.
Discover ==
    /\ last.op = "not_launched"
    /\ profiles' = discover_sso_profiles(aws_config)
    /\ last' = [last EXCEPT !.op = "discover"]
    /\ UNCHANGED <<now, AWS_CLI, alive, active_profile, fast_mode,
                   aggressive_mode, interval, timers_armed, title,
                   header_item, expires_item, timeleft_item,
                   active_profile_file, login_timestamp_files,
                   login_requested, requested_profile, aws_config>>

\* The discovery alone, over every configuration.
NextDiscover == Discover

SpecDiscover == InitDiscover /\ [][NextDiscover]_vars

(* ------------------------------ cadence -------------------------------- *)

CadenceMode ==
    IF fast_mode THEN "Fast"
    ELSE IF aggressive_mode THEN "Aggressive" ELSE "Normal"

Level ==
    CASE title = ICON_OK -> "OK"
      [] title = ICON_WARNING -> "Warning"
      [] OTHER -> "Expired"

\* An update_status that ran to its end: a timer tick, or the first call
\* made by __init__.
TickDone == last.op = "tick"
AnyUpdateDone == last.op \in {"tick", "start"}

(* ------------------------------- claims -------------------------------- *)

\* C1: a tick that starts in Fast cadence ends in Fast or Normal, never in
\* Aggressive, and a tick that confirms a login ends in Normal, whatever the
\* stored timestamp and whatever the outcome of the timestamp write.
C1_FastNeverToAggressive ==
    (TickDone /\ last.fast0) =>
        /\ CadenceMode # "Aggressive"
        /\ (last.logged_in => CadenceMode = "Normal")

\* C2: at the end of a tick the cadence is Aggressive only if no login
\* request is outstanding and the tick computed 0 < minutesRemaining <= 5;
\* after a tick with no expiry, no live login or minutesRemaining <= 0 the
\* cadence, when not Fast, is Normal.
C2_AggressiveOnlyNearExpiry ==
    AnyUpdateDone =>
        /\ (CadenceMode = "Aggressive" =>
                /\ ~Outstanding
                /\ last.total_minutes # None
                /\ 0 < Val(last.total_minutes)
                /\ Val(last.total_minutes) <= AGGRESSIVE_CHECK_THRESHOLD_MINUTES)
        /\ ((\/ last.expiry = None
             \/ ~last.logged_in
             \/ (last.total_minutes # None /\ Val(last.total_minutes) <= 0))
            => CadenceMode \in {"Fast", "Normal"})

\* C2 amended: at the end of a tick the cadence is Aggressive exactly when
\* the tick ends outside Fast and computed minutesRemaining <= 5, zero and
\* negative values included, and then no login request is outstanding; after
\* a tick with no expiry or no live login the cadence, when not Fast, is
\* Normal.
C2_AggressiveIffAtMostThreshold ==
    AnyUpdateDone =>
        /\ (CadenceMode = "Aggressive" <=>
                /\ ~fast_mode
                /\ last.total_minutes # None
                /\ Val(last.total_minutes) <= AGGRESSIVE_CHECK_THRESHOLD_MINUTES)
        /\ (CadenceMode = "Aggressive" => ~Outstanding)
        /\ ((last.expiry = None \/ ~last.logged_in)
            => (last.total_minutes = None /\ CadenceMode \in {"Fast", "Normal"}))

\* C2 witness: a tick found a live session one minute past its estimated
\* expiry and left the cadence Aggressive.
C2_Witness ==
    /\ TickDone /\ last.logged_in /\ ~last.fast0
    /\ last.total_minutes # None /\ Val(last.total_minutes) < 0
    /\ CadenceMode = "Aggressive"
    /\ interval = aggressive_interval

\* C3: while a login request of this process is outstanding and unconfirmed,
\* the cadence is Fast and the timer runs at the fast interval.
C3_OutstandingIsFast ==
    Outstanding =>
        /\ CadenceMode = "Fast"
        /\ interval = fast_interval
        /\ active_profile = login_requested[2]

\* C3 witness: a login was requested, a tick saw no live login, and a second
\* request for the other profile followed while the first was outstanding.
C3_Witness ==
    /\ Outstanding
    /\ TickDone /\ last.fast0 /\ ~last.logged_in
    /\ aggressive_mode
    /\ login_requested[2] = "prod"

\* The file of profile p holds no timestamp: it is missing or does not parse.
NoRecordedTimestamp(files, p) ==
    LET f == files[get_login_timestamp_file(p)] IN
    f = None \/ ~ParsesAsIso(Val(f))

ExpiryOf(p) == calculate_session_expiry(login_timestamp_files, p)

\* This step is a tick that called save_login_timestamp(p).
RecordStep(p) ==
    last' # last /\ last'.op = "tick" /\ last'.saved /\ last'.profile = p

\* C4: a timestamp file changes only in a tick that starts in Fast cadence
\* and sees a live login, and only the file of the profile that is active at
\* that tick, which is the profile of the latest refresh_profile.
C4_TimestampFrame ==
    [][\A f \in TimestampFiles :
         login_timestamp_files'[f] # login_timestamp_files[f] =>
            /\ last'.op = "tick" /\ last'.fast0 /\ last'.logged_in
            /\ f = get_login_timestamp_file(active_profile)
            /\ active_profile' = active_profile
            /\ login_requested = Requested("this_run", active_profile)]_vars

\* C4 witness: a confirming tick has just overwritten the timestamp of the
\* active profile while the other profile keeps its own.
C4_Witness ==
    /\ TickDone /\ last.saved /\ last.write = "written"
    /\ active_profile = "prod"
    /\ ExpiryOf("prod") = Some(Val(last.t_write) + SessionSeconds)
    /\ ExpiryOf("default") # None
    /\ ExpiryOf("default") # ExpiryOf("prod")

\* C5: the first tick that sees a live login after refresh_profile(P) calls
\* save_login_timestamp(P) once and moves the cadence from Fast to Normal
\* (so no later tick saves again before another request), and the expiry it
\* computes is the recorded timestamp plus the session duration.
C5_ConfirmOnceThenNormal ==
    /\ (TickDone /\ last.fast0 /\ last.logged_in) =>
            /\ last.saved
            /\ ~Outstanding
            /\ CadenceMode = "Normal"
            /\ (last.write = "written" =>
                    last.expiry = Some(Val(last.t_write) + SessionSeconds))
    /\ (AnyUpdateDone /\ last.saved) => (last.fast0 /\ last.logged_in)

\* C6: a tick that starts in Fast cadence and sees no live login publishes
\* "not logged in", level Expired and no expiry, writes no timestamp, and
\* leaves the cadence and the timer interval Fast.
C6_FastTickNotLive ==
    /\ []((TickDone /\ last.fast0 /\ ~last.logged_in) =>
            /\ header_item = NOT_LOGGED_IN
            /\ Level = "Expired"
            /\ expires_item = EXPIRES_NONE
            /\ timeleft_item = TIMELEFT_NONE
            /\ ~last.saved
            /\ CadenceMode = "Fast"
            /\ interval = fast_interval)
    /\ [][(last'.op = "tick" /\ last'.fast0 /\ ~last'.logged_in) =>
            login_timestamp_files' = login_timestamp_files]_vars

\* C6 witness: such a tick, for a profile whose stored timestamp has not
\* reached its expiry.
C6_Witness ==
    /\ TickDone /\ last.fast0 /\ ~last.logged_in
    /\ ExpiryOf(active_profile) # None
    /\ Val(ExpiryOf(active_profile)) > now + EXPIRY_WARNING_MINUTES * SecondsPerMinute

\* C7: when a profile has no recorded timestamp at the end of a tick, its
\* computed expiry is absent, and if it is the active profile the tick
\* computed no expiry and published level Expired, live login or not.
C7_NoTimestampIsExpired ==
    AnyUpdateDone =>
        \A p \in Profiles :
            NoRecordedTimestamp(login_timestamp_files, p) =>
                /\ ExpiryOf(p) = None
                /\ (p = active_profile =>
                        /\ last.expiry = None
                        /\ Level = "Expired"
                        /\ expires_item = EXPIRES_NONE)

\* C7 witness: a tick saw a live login for a profile with no timestamp while
\* the other profile has one.
C7_Witness ==
    /\ TickDone /\ last.logged_in
    /\ active_profile = "prod"
    /\ NoRecordedTimestamp(login_timestamp_files, "prod")
    /\ ~NoRecordedTimestamp(login_timestamp_files, "default")

\* C8 as stated: a tick that calls save_login_timestamp(P) at T makes the
\* computed expiry of P exactly T + 8 hours, and every other step (ticks,
\* requests and recordings for other profiles, restarts) leaves it unchanged.
C8_ExpiryIsRecordPlusDuration ==
    [][\A p \in Profiles :
         IF RecordStep(p)
         THEN calculate_session_expiry(login_timestamp_files', p)
                  = Some(Val(last'.t_write) + SessionSeconds)
         ELSE calculate_session_expiry(login_timestamp_files', p)
                  = ExpiryOf(p)]_vars

\* C8 amended: the same when the write of save_login_timestamp succeeds; when
\* it fails the computed expiry of P keeps its previous value (file left
\* untouched) or becomes absent (file truncated).
C8_ExpiryIsRecordPlusDurationIfWritten ==
    [][\A p \in Profiles :
         IF RecordStep(p)
         THEN calculate_session_expiry(login_timestamp_files', p)
                  = CASE last'.write = "written" ->
                             Some(Val(last'.t_write) + SessionSeconds)
                      [] last'.write = "failed_untouched" -> ExpiryOf(p)
                      [] OTHER -> None
         ELSE calculate_session_expiry(login_timestamp_files', p)
                  = ExpiryOf(p)]_vars

\* C8 witness: both profiles were recorded at different instants, and after
\* a restart each still has its own expiry.
C8_Witness ==
    /\ last.op = "start"
    /\ ExpiryOf("default") = Some(SessionSeconds)
    /\ ExpiryOf("prod") = Some(Granule + SessionSeconds)
    /\ now > Granule

\* C9: a tick not in Fast cadence with a live login and an expiry leaves the
\* cadence Aggressive with the timer at the aggressive interval when
\* minutesRemaining = 5, and Normal with the timer at the normal interval
\* when minutesRemaining = 6.
C9_ThresholdBoundary ==
    (TickDone /\ ~last.fast0 /\ last.logged_in /\ last.total_minutes # None) =>
        /\ (Val(last.total_minutes) = AGGRESSIVE_CHECK_THRESHOLD_MINUTES =>
                CadenceMode = "Aggressive" /\ interval = aggressive_interval)
        /\ (Val(last.total_minutes) = AGGRESSIVE_CHECK_THRESHOLD_MINUTES + 1 =>
                CadenceMode = "Normal" /\ interval = normal_interval)

\* C10: a tick with a live login and an expiry publishes level Expired when
\* minutesRemaining <= 0, Warning when 1 <= minutesRemaining <= 9 and OK when
\* minutesRemaining >= 10.
C10_LevelBoundaries ==
    (AnyUpdateDone /\ last.logged_in /\ last.expiry # None) =>
        /\ last.total_minutes # None
        /\ Level = (IF Val(last.total_minutes) <= 0 THEN "Expired"
                    ELSE IF Val(last.total_minutes) <= EXPIRY_WARNING_MINUTES - 1
                    THEN "Warning" ELSE "OK")

\* C10 witness: a tick computed exactly zero minutes remaining for a live
\* session and published level Expired.
C10_Witness ==
    /\ TickDone /\ last.logged_in
    /\ last.total_minutes = Some(0)
    /\ last.expiry = Some(now)
    /\ Level = "Expired"

\* A refresh_profile that found the CLI and ran to its end.
RequestDone == last.op = "refresh_profile"

\* What every refresh_profile with the CLI does besides writing the selection
\* file, and what no update_status does: the profile becomes the active one,
\* the cadence is Fast with the timer at the fast interval, exactly one login
\* command for that profile is handed to Popen whether or not a request was
\* outstanding, and update_status hands none.
RequestEffects ==
    /\ (RequestDone =>
            /\ active_profile = last.profile
            /\ CadenceMode = "Fast"
            /\ interval = fast_interval
            /\ last.spawned = <<LoginCommand(last.profile)>>)
    /\ (last.op \in {"tick", "start", "tick_raised", "start_raised",
                     "refresh_unavailable"} => last.spawned = <<>>)

LaunchDone == last.op \in {"start", "start_raised"}

\* No tick changes the active profile or the selection file: the profile
\* changes in refresh_profile and at a launch, the file in refresh_profile.
SelectionFrame ==
    /\ (active_profile' # active_profile =>
            last'.op \in {"refresh_profile", "start", "start_raised"})
    /\ (active_profile_file' # active_profile_file =>
            last'.op = "refresh_profile")

\* C12 (as stated): the active profile is mutated only by requestLogin and is
\* persisted on every mutation: after a restart load_active_profile returns
\* the profile of the last requestLogin, and "default" when nothing was ever
\* stored or the stored value cannot be read.
C12_RestartLoadsLastRequest ==
    /\ [][SelectionFrame]_vars
    /\ [](LaunchDone =>
            active_profile = (IF requested_profile = None \/ ~last.readable
                              THEN "default"
                              ELSE Val(requested_profile)))

\* C12 (amended): the active profile is mutated only by requestLogin; each
\* requestLogin writes the selection file, which then holds the profile if
\* the write succeeded, is unchanged if the write failed before touching it
\* and is empty if it failed after truncating it; after a restart
\* load_active_profile returns the content of the file stripped of
\* surrounding whitespace, and "default" when there is no file or it cannot
\* be read.
C12_RestartLoadsStoredSelection ==
    /\ [][/\ SelectionFrame
          /\ (last'.op = "refresh_profile" =>
                active_profile_file' =
                    (CASE last'.selection_write = "written" ->
                              Some(last'.profile)
                       [] last'.selection_write = "failed_untouched" ->
                              active_profile_file
                       [] OTHER -> Some("")))]_vars
    /\ [](LaunchDone =>
            active_profile = (IF active_profile_file = None \/ ~last.readable
                              THEN "default"
                              ELSE strip(Val(active_profile_file))))

\* C12 witness: "prod" was requested and written, the next request, for
\* "default", failed to write, and the relaunched process loads "prod".
C12_Witness ==
    /\ LaunchDone /\ last.readable
    /\ requested_profile = Some("default")
    /\ active_profile_file = Some("prod")
    /\ active_profile = "prod"

\* C13: whatever the outcome of the live-login check (success, non-zero
\* exit, the command could not be run, no CLI), update_status runs to its end
\* with no exception leaving it, every outcome other than success counts as
\* no live login and shows level Expired, and the process keeps ticking.
C13_CheckOutcomesNeverEscape ==
    /\ last.op \notin {"tick_raised", "start_raised"}
    /\ alive
    /\ (AnyUpdateDone /\ ~last.logged_in => Level = "Expired")

\* The process found no CLI at its launch and is running.
NoCli == AWS_CLI = None /\ alive

\* C14: when the CLI was not found at startup, for the whole life of the
\* process every tick sees no live login and shows level Expired,
\* refresh_profile changes neither the active profile, the selection file,
\* the cadence nor the timer interval and dispatches nothing, the cadence is
\* Normal throughout and no login timestamp is written.
C14_NoCliShortCircuits ==
    /\ [](NoCli =>
            /\ CadenceMode = "Normal"
            /\ interval = normal_interval
            /\ Level = "Expired"
            /\ ~last.logged_in
            /\ ~last.saved
            /\ last.spawned = <<>>)
    /\ [][(NoCli /\ last'.op \in {"tick", "refresh_unavailable"}) =>
            UNCHANGED <<AWS_CLI, active_profile, active_profile_file,
                        login_timestamp_files, fast_mode, aggressive_mode,
                        interval, timers_armed, login_requested>>]_vars

\* C14 witness: a process without the CLI, launched over a timestamp that a
\* former process recorded for the active profile, took a click on "prod":
\* the level is Expired and "default" is still the active profile.
C14_Witness ==
    /\ NoCli
    /\ last.op = "refresh_unavailable" /\ last.profile = "prod"
    /\ active_profile = "default"
    /\ ~NoRecordedTimestamp(login_timestamp_files, "default")
    /\ Level = "Expired"

\* The calls are stop, interval assignment, start, any number of times over.
RECURSIVE StopSetStart(_)
StopSetStart(calls) ==
    \/ calls = <<>>
    \/ /\ Len(calls) >= 3
       /\ calls[1] = <<"stop">>
       /\ calls[2][1] = "interval"
       /\ calls[3] = <<"start">>
       /\ StopSetStart(SubSeq(calls, 4, Len(calls)))

\* C15: from the launch on exactly one repeating timer is armed while the
\* process runs; every change of its interval, by refresh_profile or by
\* update_status, is a stop of that timer, the assignment of the new period
\* and a start of the same timer, so no two schedules of update_status
\* overlap.
C15_OneTimerStopThenStart ==
    /\ [](alive => timers_armed = 1)
    /\ [](StopSetStart(last.timer_calls))
    /\ [][(interval' # interval /\ last'.op \notin {"start", "start_raised"})
            => /\ last'.timer_calls # <<>>
               /\ last'.timer_calls[Len(last'.timer_calls) - 1]
                      = <<"interval", interval'>>]_vars

\* C15 witness: one tick restarted the timer twice, at the normal interval
\* when it confirmed the login and at the aggressive interval after it, and
\* one timer is armed.
C15_Witness ==
    /\ TickDone
    /\ last.timer_calls = TimerRestart(normal_interval)
                              \o TimerRestart(aggressive_interval)
    /\ timers_armed = 1
    /\ interval = aggressive_interval

\* A tick, or the first update_status, that reached the computation of the
\* time remaining: it saw a live login and an expiry.
RemainingComputed ==
    AnyUpdateDone /\ last.logged_in /\ last.expiry # None

\* C18 (as stated): on every tick with a live login and an expiry,
\* minutesRemaining is floor((expiry - now) / 1 minute), also when now is
\* later than the expiry by a number of minutes that is not whole.
C18_MinutesRemainingIsFloor ==
    RemainingComputed =>
        last.total_minutes =
            Some((Val(last.expiry) - Val(last.clock)) \div SecondsPerMinute)

\* C18 (amended): minutesRemaining is (expiry - now) / 1 minute rounded
\* toward zero: the floor while now is not later than the expiry, the
\* ceiling once it is.
C18_MinutesRemainingTruncates ==
    RemainingComputed =>
        LET delta == Val(last.expiry) - Val(last.clock) IN
        last.total_minutes =
            Some(IF delta >= 0 THEN delta \div SecondsPerMinute
                 ELSE -((-delta) \div SecondsPerMinute))

\* C18 witness: a tick half a minute after the expiry computed zero minutes
\* remaining, where the floor is -1.
C18_Witness ==
    /\ RemainingComputed
    /\ Val(last.expiry) - Val(last.clock) = -Granule
    /\ last.total_minutes = Some(0)

\* C19: at the end of every update_status and every refresh_profile the
\* timer interval agrees with the mode flags: the fast interval if fast_mode
\* is set, else the aggressive interval if aggressive_mode is set, else the
\* normal interval; also after a refresh_profile issued while
\* aggressive_mode is set and after a confirming tick whose timestamp write
\* fails.
C19_IntervalAgreesWithFlags ==
    (alive /\ last.op \in {"tick", "start", "refresh_profile"}) =>
        interval = (IF fast_mode THEN fast_interval
                    ELSE IF aggressive_mode THEN aggressive_interval
                    ELSE normal_interval)

\* C20 (as stated): the cadence is not persisted: after every restart it is
\* Normal, also when a login request was outstanding before the restart, and
\* no update_status writes a login timestamp, whatever the live-login check
\* says, until a new requestLogin.
C20_RestartIsNormal ==
    last.op = "start" => (CadenceMode = "Normal" /\ ~last.saved)

\* C20 (amended): a launch starts from the Normal cadence whatever was
\* outstanding before it, and its first update_status, run before the launch
\* ends, leaves the cadence Normal or, seeing a live login with at most five
\* minutes remaining, Aggressive, never Fast; no update_status writes a
\* login timestamp unless a requestLogin of the running process is
\* outstanding.
C20_RestartNeverFast ==
    /\ [](LaunchDone =>
            /\ ~last.fast0 /\ ~last.aggressive0
            /\ ~fast_mode
            /\ ~last.saved
            /\ (CadenceMode = "Aggressive" =>
                    /\ last.logged_in
                    /\ last.total_minutes # None
                    /\ Val(last.total_minutes)
                          <= AGGRESSIVE_CHECK_THRESHOLD_MINUTES))
    /\ [][(login_timestamp_files' # login_timestamp_files \/ last'.saved)
            => (Outstanding /\ last'.op = "tick")]_vars

\* C20 witness: "prod" was requested and never confirmed, the process was
\* launched again, and its first update_status saw a live login, wrote no
\* timestamp and left the cadence Normal.
C20_Witness ==
    /\ last.op = "start" /\ last.logged_in
    /\ requested_profile = Some("prod") /\ active_profile = "prod"
    /\ login_timestamp_files[get_login_timestamp_file("prod")] = None
    /\ CadenceMode = "Normal"

\* The names, in file order and with the "profile " prefix removed, of the
\* sections of a configuration that are [default] or "profile "-prefixed and
\* have an sso_start_url or an sso_session: written in the section itself
\* or, if inherited is set, also in [DEFAULT].
QualifyingNames(config, inherited) ==
    LET Qualifies(section) ==
            /\ section.name = <<"", "default">> \/ section.name[1] = "profile "
            /\ \E option \in {"sso_start_url", "sso_session"} :
                   \/ option \in section.options
                   \/ inherited /\ option \in config.defaults
        kept == SelectSeq(config.sections, Qualifies)
    IN [i \in 1..Len(kept) |-> kept[i].name[2]]

\* The file is there, can be opened and parses (no line out of syntax, no
\* section twice).
ConfigUsable(config) ==
    /\ config.exists /\ config.readable /\ config.wellformed
    /\ \A i, j \in DOMAIN config.sections :
          config.sections[i].name = config.sections[j].name => i = j

DiscoverDone == last.op = "discover"

\* C16 (as stated): discover_sso_profiles returns, in configuration order,
\* exactly the names of the sections that are the default section or
\* "profile "-prefixed (prefix removed) and that declare an SSO start URL or
\* an SSO session; it returns <<"default">> when the source is missing,
\* unreadable or has no such section, so the result is never empty.
C16_DiscoverReturnsDeclaringSections ==
    DiscoverDone =>
        /\ profiles # <<>>
        /\ profiles =
              (IF ConfigUsable(aws_config)
                  /\ QualifyingNames(aws_config, FALSE) # <<>>
               THEN QualifyingNames(aws_config, FALSE) ELSE <<"default">>)

\* C16 (amended): as stated, where a section has an SSO start URL or an SSO
\* session if the option is written in it or in the [DEFAULT] section of
\* the file, whose options every section inherits.
C16_DiscoverReturnsInheritingSections ==
    DiscoverDone =>
        /\ profiles # <<>>
        /\ profiles =
              (IF ConfigUsable(aws_config)
                  /\ QualifyingNames(aws_config, TRUE) # <<>>
               THEN QualifyingNames(aws_config, TRUE) ELSE <<"default">>)

\* C16 witness: [profile prod] holds only a region and [DEFAULT] holds the
\* sso_start_url; [default] comes second with an sso_session of its own.
C16_Witness ==
    /\ DiscoverDone
    /\ aws_config =
          ConfigFile(TRUE, TRUE, TRUE, {"sso_start_url"},
                     <<[name |-> <<"profile ", "prod">>, options |-> {"region"}],
                       [name |-> <<"", "default">>,
                        options |-> {"sso_session"}]>>)
    /\ profiles = <<"prod", "default">>

\* From some point on every firing of the timer finds the login live, and
\* the timestamp it records, if any, is written.
LiveFromSomePointOn ==
    <>[][last'.op \in {"tick", "tick_raised"} =>
            /\ last'.op = "tick"
            /\ last'.logged_in
            /\ last'.write \in {"none", "written"}]_vars

\* C17: with the timer firing again and again, if after a requestLogin the
\* live-login check becomes and stays true and the timestamp write
\* succeeds, the login is confirmed by the first tick that sees it live, and
\* the cadence is then Normal and the level OK; Fast cadence is left only
\* by a tick that sees a live login, and a tick in Fast cadence that sees
\* none leaves the cadence Fast, however many there are.
C17_FastUntilConfirmed ==
    /\ LiveFromSomePointOn =>
            (Outstanding ~>
                (~Outstanding /\ CadenceMode = "Normal" /\ Level = "OK"))
    /\ []((TickDone /\ last.fast0 /\ last.logged_in) =>
            /\ ~fast_mode /\ ~Outstanding /\ last.saved
            /\ (last.write = "written" =>
                    CadenceMode = "Normal" /\ Level = "OK"))
    /\ []((TickDone /\ last.fast0 /\ ~last.logged_in) => CadenceMode = "Fast")
    /\ [][(fast_mode /\ ~fast_mode') =>
            (last'.op = "tick" /\ last'.logged_in)]_vars

\* C17 witness: a request made in the aggressive cadence was confirmed by a
\* tick that saw the login live and wrote the timestamp: Normal, level OK.
C17_Witness ==
    /\ TickDone /\ last.fast0 /\ last.aggressive0 /\ last.logged_in
    /\ last.write = "written"
    /\ CadenceMode = "Normal" /\ Level = "OK"

====
